---- MODULE Spec2Model ----
(***************************************************************************)
(* Model of the logging facade of brinick/logging: the package-level      *)
(* logger reference, NewClient / SetClient / Client / Configure, the      *)
(* leveled forwarding calls, the logrus backend (LogrusLogger) and the    *)
(* null backend (NullLogger), and Config.Update.                           *)
(*                                                                         *)
(* Strings that the code inspects character by character (level names,    *)
(* file paths) are sequences of tokens: " " is one whitespace character,  *)
(* "/" the path separator, any other token a run of ordinary characters.  *)
(* Strings the code only compares (backend names, format names, messages) *)
(* are TLA+ strings.                                                       *)
(***************************************************************************)
EXTENDS Integers, Sequences, FiniteSets, TLC

VARIABLES logger, lggr, alive, last, emitted, updBase, updOver, updRet, updDone

vars ==
    <<logger, lggr, alive, last, emitted, updBase, updOver, updRet, updDone>>

(***************************************************************************)
(* Bounds.                                                                 *)
(***************************************************************************)
\* number of heap addresses logger objects are allocated from
MaxAlloc ==
    3

\* longest message list handed to a multi-line variant
MaxMsgs ==
    2

(***************************************************************************)
(* logrus severity levels (github.com/sirupsen/logrus Level enum).         *)
(***************************************************************************)
FatalLevel ==
    1

ErrorLevel ==
    2

InfoLevel ==
    4

DebugLevel ==
    5

(***************************************************************************)
(* strings.TrimSpace on token sequences.                                   *)
(***************************************************************************)
RECURSIVE TrimLeft(_)
TrimLeft(s) ==
    IF Len(s) > 0 /\ Head(s) = " " THEN TrimLeft(Tail(s)) ELSE s

RECURSIVE TrimRight(_)
TrimRight(s) ==
    IF Len(s) > 0 /\ s[Len(s)] = " " THEN TrimRight(SubSeq(s, 1, Len(s) - 1)) ELSE s

TrimSpace(s) ==
    TrimRight(TrimLeft(s))

(***************************************************************************)
(* The filesystem collaborator: parent directory of a path, the            *)
(* directories that exist, and the outcome of opening a file for append.   *)
(***************************************************************************)
RECURSIVE LastSep(_)
LastSep(p) ==
    IF Len(p) = 0 THEN 0
    ELSE IF p[Len(p)] = "/" THEN Len(p)
    ELSE LastSep(SubSeq(p, 1, Len(p) - 1))

Dir(p) ==
    LET i == LastSep(p)
    IN  IF i = 0 THEN <<".">>
        ELSE IF i = 1 THEN <<"/">>
        ELSE SubSeq(p, 1, i - 1)

ExistingDirs ==
    { <<"/">>, <<".">>, <<"/", "tmp">> }

Stdout ==
    <<"<stdout>">>

Stderr ==
    <<"<stderr>">>

NoFile ==
    <<>>

\* os.OpenFile(name, O_CREATE|O_WRONLY|O_APPEND): fails when the directory
\* holding name is missing or when the system refuses (env.openErr).
OpenFile(name, env) ==
    IF Dir(name) \notin ExistingDirs \/ env.openErr
    THEN [err |-> TRUE, file |-> NoFile]
    ELSE [err |-> FALSE, file |-> name]

(***************************************************************************)
(* Config and Config.Update.                                               *)
(***************************************************************************)
NilCfg ==
    [isNil |-> TRUE]

MkConfig(lv, fmt, out) ==
    [LogLevel |-> lv, OutFormat |-> fmt, Outfile |-> out]

\* c.Update(cfg): c is overwritten in place and returned; cfg is only read.
\* The result records the receiver after the call, the argument after the
\* call, and the returned value.
UpdateDropsFormat(c, cfg) ==
    IF cfg = NilCfg THEN [c |-> c, cfg |-> cfg, ret |-> c]
    ELSE LET n == [c EXCEPT
                     !.LogLevel = IF cfg.LogLevel # <<>> THEN cfg.LogLevel ELSE @,
                     !.Outfile = IF cfg.Outfile # <<>> THEN cfg.Outfile ELSE @]
         IN  [c |-> n, cfg |-> cfg, ret |-> n]

Update(c, cfg) ==
    IF cfg = NilCfg THEN [c |-> c, cfg |-> cfg, ret |-> c]
    ELSE LET n == [c EXCEPT
                     !.LogLevel = IF cfg.LogLevel # <<>> THEN cfg.LogLevel ELSE @,
                     !.OutFormat = IF cfg.OutFormat # "" THEN cfg.OutFormat ELSE @,
                     !.Outfile = IF cfg.Outfile # <<>> THEN cfg.Outfile ELSE @]
         IN  [c |-> n, cfg |-> cfg, ret |-> n]

defaultLogrusConfigDebug ==
    MkConfig(<<"debug">>, "text", <<>>)

defaultLogrusConfig ==
    MkConfig(<<"info">>, "text", <<>>)

(***************************************************************************)
(* Logger objects.  A reference is the pair (kind, addr); a LogrusLogger   *)
(* carries the wrapped logrus.Logger's Level, Formatter and Out and its    *)
(* own path field; a NullLogger has no fields.                             *)
(***************************************************************************)
Nil ==
    [kind |-> "nil", addr |-> 0]

\* address of runtime.zerobase, where zero-size objects may all live
ZeroBase ==
    0

Ref(l) ==
    [kind |-> l.kind, addr |-> l.addr]

\* &LogrusLogger{log: logrus.New()}: logrus.New() writes to stderr with the
\* library's own text formatter at info level
LogrusNew(addr) ==
    [kind |-> "logrus", addr |-> addr, level |-> InfoLevel,
     format |-> "text-default", out |-> Stderr, path |-> <<>>]

Name(l) ==
    IF l.kind = "logrus" THEN "logrus" ELSE "null"

Path(l) ==
    IF l.kind = "logrus" THEN l.path ELSE <<>>

Res(obj, outcome, msg, opened) ==
    [obj |-> obj, outcome |-> outcome, msg |-> msg, opened |-> opened]

(***************************************************************************)
(* LogrusLogger: level and format translation, the directory check and     *)
(* Configure.  A panic is an outcome of its own: it is not a returned      *)
(* error, and what was assigned before it stays assigned.                  *)
(***************************************************************************)
toLogLevel(name) ==
    LET n == TrimSpace(name)
    IN  IF n = <<"debug">> THEN [panic |-> FALSE, val |-> DebugLevel, msg |-> ""]
        ELSE IF n = <<"info">> THEN [panic |-> FALSE, val |-> InfoLevel, msg |-> ""]
        ELSE IF n = <<"error">> THEN [panic |-> FALSE, val |-> ErrorLevel, msg |-> ""]
        ELSE [panic |-> TRUE, val |-> 0,
              msg |-> IF Len(n) = 0 THEN "Please provide a log level"
                      ELSE "Unknown log level"]

toOutputFormat(name) ==
    IF name = "json" THEN [panic |-> FALSE, val |-> "json", msg |-> ""]
    ELSE IF name = "text" THEN [panic |-> FALSE, val |-> "text", msg |-> ""]
    ELSE [panic |-> TRUE, val |-> "", msg |-> "Unknown formatter"]

logfileCheck(l, env) ==
    IF env.statErr
    THEN [err |-> TRUE, msg |-> "unable to check if logfile parent directory exists"]
    ELSE IF Dir(l.path) \notin ExistingDirs
    THEN [err |-> TRUE, msg |-> "log file parent directory inexistant"]
    ELSE [err |-> FALSE, msg |-> ""]

LogrusConfigure(l, cfg, env) ==
    LET l1 == [l EXCEPT !.out = Stdout]
    IN  IF cfg = NilCfg THEN Res(l1, "panic", "nil pointer dereference", NoFile)
        ELSE
        LET lv == toLogLevel(cfg.LogLevel)
        IN  IF lv.panic THEN Res(l1, "panic", lv.msg, NoFile)
            ELSE
            LET l2 == [l1 EXCEPT !.level = lv.val]
                fm == toOutputFormat(cfg.OutFormat)
            IN  IF fm.panic THEN Res(l2, "panic", fm.msg, NoFile)
                ELSE
                LET l3 == [l2 EXCEPT !.format = fm.val,
                                     !.path = TrimSpace(cfg.Outfile)]
                IN  IF l3.path = <<>> THEN Res(l3, "ok", "", NoFile)
                    ELSE
                    LET chk == logfileCheck(l3, env)
                    IN  IF chk.err THEN Res(l3, "error", chk.msg, NoFile)
                        ELSE
                        LET f == OpenFile(cfg.Outfile, env)
                        IN  IF f.err THEN Res(l3, "error", "open failed", NoFile)
                            ELSE Res([l3 EXCEPT !.out = f.file], "ok", "", f.file)

\* NewLogrusLogger: a failed or panicking construction returns no logger
NewLogrusLogger(cfg, env, addr) ==
    LET c == IF cfg = NilCfg THEN defaultLogrusConfig ELSE cfg
        r == LogrusConfigure(LogrusNew(addr), Update(defaultLogrusConfig, c).ret, env)
    IN  IF r.outcome = "ok" THEN r ELSE [r EXCEPT !.obj = Nil]

(***************************************************************************)
(* NullLogger.                                                             *)
(***************************************************************************)
NullConfigure(l, cfg) ==
    Res(l, "ok", "", NoFile)

NewNullLogger(cfg, addr) ==
    NullConfigure([kind |-> "null", addr |-> addr], cfg)

(***************************************************************************)
(* Fields, the call-site locator and mapify.                               *)
(***************************************************************************)
F(name, val) ==
    [Name |-> name, Val |-> val]

\* source(): the caller's package and location when runtime.Caller succeeds
\* (env.srcOk), the sentinels otherwise
source(env) ==
    IF env.srcOk
    THEN << F("pkg", "app/main"), F("src", "run:10") >>
    ELSE << F("pkg", "???"), F("src", "???:0") >>

RECURSIVE mapify(_)
mapify(fields) ==
    IF fields = <<>> THEN [n \in {} |-> ""]
    ELSE LET m == mapify(SubSeq(fields, 1, Len(fields) - 1))
             f == fields[Len(fields)]
         IN  [n \in DOMAIN m \cup {f.Name} |-> IF n = f.Name THEN f.Val ELSE m[n]]

(***************************************************************************)
(* What the logrus capability receives: l.log.WithFields(m).<Level>(msg).  *)
(* The entry is written to l's destination when l's level admits it; an    *)
(* entry at fatal level also exits the process.                            *)
(***************************************************************************)
Entry(l, lvl, msg, m) ==
    [level |-> lvl, msg |-> msg, fields |-> m, dest |-> l.out,
     written |-> l.level >= lvl]

Out(entries, exit) ==
    [emitted |-> entries, exit |-> exit]

LogrusDebug(l, msg, fields, env) ==
    Out(<< Entry(l, DebugLevel, msg, mapify(fields \o source(env))) >>, FALSE)

LogrusInfo(l, msg, fields, env) ==
    Out(<< Entry(l, InfoLevel, msg, mapify(fields \o source(env))) >>, FALSE)

LogrusError(l, msg, fields, env) ==
    Out(<< Entry(l, ErrorLevel, msg, mapify(fields \o source(env))) >>, FALSE)

LogrusFatal(l, msg, fields, env) ==
    Out(<< Entry(l, FatalLevel, msg, mapify(fields \o source(env))) >>, TRUE)

LogrusDebugL(l, msgs, fields) ==
    LET m == mapify(fields)
    IN  Out([i \in 1..Len(msgs) |-> Entry(l, DebugLevel, msgs[i], m)], FALSE)

LogrusInfoL(l, msgs, fields) ==
    LET m == mapify(fields)
    IN  Out([i \in 1..Len(msgs) |-> Entry(l, InfoLevel, msgs[i], m)], FALSE)

LogrusErrorL(l, msgs, fields) ==
    LET m == mapify(fields)
    IN  Out([i \in 1..Len(msgs) |-> Entry(l, ErrorLevel, msgs[i], m)], FALSE)

\* the first Fatal entry exits the process: the loop never reaches a second
LogrusFatalL(l, msgs, fields) ==
    LET m == mapify(fields)
    IN  IF msgs = <<>> THEN Out(<<>>, FALSE)
        ELSE Out(<< Entry(l, FatalLevel, msgs[1], m) >>, TRUE)

\* NullLogger's Debug, DebugL, Info, InfoL, Error, ErrorL, Fatal, FatalL
NullLogExits ==
    Out(<<>>, TRUE)

NullLog ==
    Out(<<>>, FALSE)

(***************************************************************************)
(* The facade: NewClient and SetClient.                                    *)
(***************************************************************************)
NullAddr(env, addr) ==
    IF env.fresh THEN addr ELSE ZeroBase

NewClient(name, cfg, env, addr) ==
    IF name = "logrus" THEN NewLogrusLogger(cfg, env, addr)
    ELSE NewNullLogger(cfg, NullAddr(env, addr))

\* the result: the package-level logger after the call, and the call's outcome
SetRes(lg, r, noop) ==
    [logger |-> lg, outcome |-> r.outcome, msg |-> r.msg, opened |-> r.opened,
     obj |-> r.obj, noop |-> noop]

SetClientStoresOnFailure(lg, name, cfg, env, addr) ==
    IF lg # Nil /\ Name(lg) = name THEN SetRes(lg, Res(Nil, "ok", "", NoFile), TRUE)
    ELSE IF name = "logrus"
    THEN LET r == NewLogrusLogger(cfg, env, addr)
         IN  SetRes(r.obj, r, FALSE)
    ELSE IF name = "none"
    THEN LET r == NewNullLogger(cfg, NullAddr(env, addr))
         IN  SetRes(r.obj, r, FALSE)
    ELSE SetRes(lg, Res(Nil, "panic", "unknown logging client type", NoFile), FALSE)

SetClient(lg, name, cfg, env, addr) ==
    IF lg # Nil /\ Name(lg) = name THEN SetRes(lg, Res(Nil, "ok", "", NoFile), TRUE)
    ELSE IF name = "logrus"
    THEN LET r == NewLogrusLogger(cfg, env, addr)
         IN  SetRes(IF r.outcome = "ok" THEN r.obj ELSE lg, r, FALSE)
    ELSE IF name = "none"
    THEN LET r == NewNullLogger(cfg, NullAddr(env, addr))
         IN  SetRes(IF r.outcome = "ok" THEN r.obj ELSE lg, r, FALSE)
    ELSE SetRes(lg, Res(Nil, "panic", "unknown logging client type", NoFile), FALSE)

\* Configure(level, format, outfile): logger.Configure(&Config{...}), whose
\* returned error is dropped; a nil logger panics
Configure(lg, cfg, env) ==
    LET r == IF lg = Nil THEN Res(lg, "panic", "nil pointer dereference", NoFile)
             ELSE IF lg.kind = "logrus" THEN LogrusConfigure(lg, cfg, env)
             ELSE NullConfigure(lg, cfg)
    IN  [r EXCEPT !.outcome = IF @ = "panic" THEN "panic" ELSE "ok"]

(***************************************************************************)
(* Inputs.                                                                 *)
(***************************************************************************)
Names ==
    { "logrus", "none", "null", "syslog" }

LevelStrings ==
    { <<>>, <<" ">>, <<"debug", " ">>, <<"error">>, <<"verbose">> }

FormatStrings ==
    { "", "json", "xml" }

TmpOut ==
    <<"/", "tmp", "/", "out.log">>

TmpOutSpace ==
    <<"/", "tmp", "/", "out.log", " ">>

SubOut ==
    <<"/", "tmp", "/", "sub", "/", "out.log">>

OutfileStrings ==
    { <<>>, TmpOut, TmpOutSpace, SubOut }

\* every Config over the strings above: the inputs of Config.Update
AllConfigs ==
    { MkConfig(lv, fm, out) :
        lv \in LevelStrings, fm \in FormatStrings, out \in OutfileStrings }

\* the Configs handed to a backend: every combination of empty and valid
\* fields, and one Config for each way of being invalid
ValidConfigs ==
    { MkConfig(lv, fm, out) :
        lv \in { <<>>, <<"debug", " ">> }, fm \in { "", "json" },
        out \in { <<>>, TmpOut } }

Configs ==
    ValidConfigs \cup
    { MkConfig(<<"verbose">>, "", <<>>),
      MkConfig(<<" ">>, "json", <<>>),
      MkConfig(<<>>, "xml", <<>>),
      MkConfig(<<"error">>, "", SubOut),
      MkConfig(<<"error">>, "json", TmpOutSpace) }

\* the Configs the facade is driven with
FacadeConfigs ==
    { NilCfg,
      MkConfig(<<>>, "", <<>>),
      MkConfig(<<"debug", " ">>, "json", TmpOut),
      MkConfig(<<"verbose">>, "", <<>>),
      MkConfig(<<"error">>, "", SubOut) }

\* level, format and outfile as the package-level Configure receives them
ConfigureArgs ==
    { MkConfig(<<"info">>, "text", <<>>),
      MkConfig(<<"error">>, "json", TmpOutSpace),
      MkConfig(<<>>, "text", <<>>),
      MkConfig(<<"debug">>, "xml", <<>>),
      MkConfig(<<"debug">>, "text", SubOut) }

Msgs ==
    { "m1", "m2" }

MsgLists ==
    UNION { [1..n -> Msgs] : n \in 0..MaxMsgs }

FieldLists ==
    { <<>>, << F("pkg", "mine"), F("src", "mine:1"), F("k", "v") >> }

NoEnv ==
    [statErr |-> FALSE, openErr |-> FALSE, srcOk |-> FALSE, fresh |-> FALSE]

\* the filesystem's answers, where a Config names a file
FsEnvs(cfg) ==
    IF cfg = NilCfg \/ TrimSpace(cfg.Outfile) = <<>> THEN { NoEnv }
    ELSE { NoEnv, [NoEnv EXCEPT !.statErr = TRUE], [NoEnv EXCEPT !.openErr = TRUE] }

\* what a construction meets: the filesystem's answers for the logrus
\* backend, the allocator's choice of address for a zero-size NullLogger
NewEnvs(name, cfg) ==
    IF name = "logrus" THEN FsEnvs(cfg)
    ELSE { NoEnv, [NoEnv EXCEPT !.fresh = TRUE] }

SrcEnvs ==
    { [NoEnv EXCEPT !.srcOk = a] : a \in BOOLEAN }

(***************************************************************************)
(* State.  logger is the package-level variable; lggr is a logger a caller *)
(* constructed and holds itself; alive is FALSE once the process has       *)
(* exited; last describes the most recent call and emitted the entries     *)
(* that call handed to logrus.                                             *)
(***************************************************************************)
Call(op, name, cfg, env, outcome, msg, opened, obj, noop, msgs) ==
    [op |-> op, name |-> name, cfg |-> cfg, env |-> env, outcome |-> outcome,
     msg |-> msg, opened |-> opened, obj |-> obj, noop |-> noop, msgs |-> msgs]

NoCall ==
    Call("none", "", NilCfg, NoEnv, "ok", "", NoFile, Nil, FALSE, <<>>)

\* an address no live logger occupies (the smallest, as addresses are
\* interchangeable)
FreshAddr ==
    LET live == { logger.addr, lggr.addr }
    IN  CHOOSE a \in 1..MaxAlloc :
            a \notin live /\ \A b \in 1..(a - 1) : b \in live

updVars ==
    <<updBase, updOver, updRet, updDone>>

UpdIdle ==
    /\ updBase = defaultLogrusConfig
    /\ updOver = NilCfg
    /\ updRet = NilCfg
    /\ updDone = FALSE

Init ==
    /\ logger = Nil
    /\ lggr = Nil
    /\ alive = TRUE
    /\ last = NoCall
    /\ emitted = <<>>
    /\ UpdIdle

(***************************************************************************)
(* Actions of the facade.                                                  *)
(***************************************************************************)
DoSetClient ==
    /\ alive
    /\ \E name \in Names, cfg \in FacadeConfigs :
         \E env \in NewEnvs(name, cfg) :
           LET r == SetClient(logger, name, cfg, env, FreshAddr)
           IN  /\ logger' = r.logger
               /\ last' = Call("SetClient", name, cfg, env, r.outcome, r.msg,
                               r.opened, r.obj, r.noop, <<>>)
    /\ emitted' = <<>>
    /\ UNCHANGED <<lggr, alive, updVars>>

DoNewClient ==
    /\ alive
    /\ \E name \in Names, cfg \in FacadeConfigs :
         \E env \in NewEnvs(name, cfg) :
           LET r == NewClient(name, cfg, env, FreshAddr)
           IN  last' = Call("NewClient", name, cfg, env, r.outcome, r.msg,
                            r.opened, r.obj, FALSE, <<>>)
    /\ emitted' = <<>>
    /\ UNCHANGED <<logger, lggr, alive, updVars>>

DoClient ==
    /\ alive
    /\ last' = Call("Client", "", NilCfg, NoEnv, "ok", "", NoFile, logger, FALSE,
                    <<>>)
    /\ emitted' = <<>>
    /\ UNCHANGED <<logger, lggr, alive, updVars>>

DoConfigure ==
    /\ alive
    /\ \E cfg \in ConfigureArgs :
         \E env \in FsEnvs(cfg) :
           LET r == Configure(logger, cfg, env)
           IN  /\ logger' = r.obj
               /\ last' = Call("Configure", "", cfg, env, r.outcome, r.msg,
                               r.opened, Nil, FALSE, <<>>)
    /\ emitted' = <<>>
    /\ UNCHANGED <<lggr, alive, updVars>>

(***************************************************************************)
(* Leveled calls through the Logger interface, and how a call ends: a call *)
(* through a nil logger panics before any backend runs; a call that        *)
(* reaches logrus at fatal level exits the process.                        *)
(***************************************************************************)
Debug(l, msg, fields, env) ==
    IF l.kind = "logrus" THEN LogrusDebug(l, msg, fields, env) ELSE NullLog

Info(l, msg, fields, env) ==
    IF l.kind = "logrus" THEN LogrusInfo(l, msg, fields, env) ELSE NullLog

Error(l, msg, fields, env) ==
    IF l.kind = "logrus" THEN LogrusError(l, msg, fields, env) ELSE NullLog

Fatal(l, msg, fields, env) ==
    IF l.kind = "logrus" THEN LogrusFatal(l, msg, fields, env) ELSE NullLog

DebugL(l, msgs, fields) ==
    IF l.kind = "logrus" THEN LogrusDebugL(l, msgs, fields) ELSE NullLog

InfoL(l, msgs, fields) ==
    IF l.kind = "logrus" THEN LogrusInfoL(l, msgs, fields) ELSE NullLog

ErrorL(l, msgs, fields) ==
    IF l.kind = "logrus" THEN LogrusErrorL(l, msgs, fields) ELSE NullLog

FatalL(l, msgs, fields) ==
    IF l.kind = "logrus" THEN LogrusFatalL(l, msgs, fields) ELSE NullLog

NilCall(op, msgs, env) ==
    /\ last' = Call(op, "", NilCfg, env, "panic", "nil pointer dereference",
                    NoFile, Nil, FALSE, msgs)
    /\ emitted' = <<>>
    /\ alive' = alive

Returns(op, msgs, env, out) ==
    /\ last' = Call(op, "", NilCfg, env, IF out.exit THEN "exit" ELSE "ok", "",
                    NoFile, Nil, FALSE, msgs)
    /\ emitted' = out.emitted
    /\ alive' = ~out.exit

(***************************************************************************)
(* The package-level Debug, Info, Error and Fatal.                         *)
(***************************************************************************)
DoPkgDebug ==
    /\ alive
    /\ \E msg \in Msgs, fields \in FieldLists, env \in SrcEnvs :
         IF logger = Nil THEN NilCall("Debug", <<msg>>, env)
         ELSE Returns("Debug", <<msg>>, env, Debug(logger, msg, fields, env))
    /\ UNCHANGED <<logger, lggr, updVars>>

DoPkgInfo ==
    /\ alive
    /\ \E msg \in Msgs, fields \in FieldLists, env \in SrcEnvs :
         IF logger = Nil THEN NilCall("Info", <<msg>>, env)
         ELSE Returns("Info", <<msg>>, env, Info(logger, msg, fields, env))
    /\ UNCHANGED <<logger, lggr, updVars>>

DoPkgError ==
    /\ alive
    /\ \E msg \in Msgs, fields \in FieldLists, env \in SrcEnvs :
         IF logger = Nil THEN NilCall("Error", <<msg>>, env)
         ELSE Returns("Error", <<msg>>, env, Error(logger, msg, fields, env))
    /\ UNCHANGED <<logger, lggr, updVars>>

DoPkgFatal ==
    /\ alive
    /\ \E msg \in Msgs, fields \in FieldLists, env \in SrcEnvs :
         IF logger = Nil THEN NilCall("Fatal", <<msg>>, env)
         ELSE Returns("Fatal", <<msg>>, env, Fatal(logger, msg, fields, env))
    /\ UNCHANGED <<logger, lggr, updVars>>

Next ==
    \/ DoSetClient
    \/ DoNewClient
    \/ DoClient
    \/ DoConfigure
    \/ DoPkgDebug
    \/ DoPkgInfo
    \/ DoPkgError
    \/ DoPkgFatal

Spec ==
    Init /\ [][Next]_vars

(***************************************************************************)
(* A backend a caller constructs and drives itself: the constructors, the  *)
(* Configure method (whose error the caller sees), the leveled methods and *)
(* their multi-line variants.                                              *)
(***************************************************************************)
DoNewLogrusLogger ==
    /\ alive
    /\ \E cfg \in Configs \cup {NilCfg} :
         \E env \in FsEnvs(cfg) :
           LET r == NewLogrusLogger(cfg, env, FreshAddr)
           IN  /\ lggr' = IF r.outcome = "panic" THEN lggr ELSE r.obj
               /\ last' = Call("NewLogrusLogger", "logrus", cfg, env, r.outcome,
                               r.msg, r.opened, r.obj, FALSE, <<>>)
    /\ emitted' = <<>>
    /\ UNCHANGED <<logger, alive, updVars>>

DoNewNullLogger ==
    /\ alive
    /\ \E cfg \in Configs \cup {NilCfg}, env \in NewEnvs("none", NilCfg) :
         LET r == NewNullLogger(cfg, NullAddr(env, FreshAddr))
         IN  /\ lggr' = r.obj
             /\ last' = Call("NewNullLogger", "none", cfg, env, r.outcome, r.msg,
                             r.opened, r.obj, FALSE, <<>>)
    /\ emitted' = <<>>
    /\ UNCHANGED <<logger, alive, updVars>>

\* lggr.Configure(cfg)
DoLoggerConfigure ==
    /\ alive
    /\ lggr # Nil
    /\ \E cfg \in Configs \cup {NilCfg} :
         \E env \in FsEnvs(cfg) :
           LET r == IF lggr.kind = "logrus" THEN LogrusConfigure(lggr, cfg, env)
                    ELSE NullConfigure(lggr, cfg)
           IN  /\ lggr' = r.obj
               /\ last' = Call("Logger.Configure", Name(lggr), cfg, env, r.outcome,
                               r.msg, r.opened, Nil, FALSE, <<>>)
    /\ emitted' = <<>>
    /\ UNCHANGED <<logger, alive, updVars>>

DoLoggerDebug ==
    /\ alive
    /\ lggr # Nil
    /\ \E msg \in Msgs, fields \in FieldLists, env \in SrcEnvs :
         Returns("Debug", <<msg>>, env, Debug(lggr, msg, fields, env))
    /\ UNCHANGED <<logger, lggr, updVars>>

DoLoggerInfo ==
    /\ alive
    /\ lggr # Nil
    /\ \E msg \in Msgs, fields \in FieldLists, env \in SrcEnvs :
         Returns("Info", <<msg>>, env, Info(lggr, msg, fields, env))
    /\ UNCHANGED <<logger, lggr, updVars>>

DoLoggerError ==
    /\ alive
    /\ lggr # Nil
    /\ \E msg \in Msgs, fields \in FieldLists, env \in SrcEnvs :
         Returns("Error", <<msg>>, env, Error(lggr, msg, fields, env))
    /\ UNCHANGED <<logger, lggr, updVars>>

DoLoggerFatal ==
    /\ alive
    /\ lggr # Nil
    /\ \E msg \in Msgs, fields \in FieldLists, env \in SrcEnvs :
         Returns("Fatal", <<msg>>, env, Fatal(lggr, msg, fields, env))
    /\ UNCHANGED <<logger, lggr, updVars>>

DoLoggerDebugL ==
    /\ alive
    /\ lggr # Nil
    /\ \E msgs \in MsgLists, fields \in FieldLists :
         Returns("DebugL", msgs, NoEnv, DebugL(lggr, msgs, fields))
    /\ UNCHANGED <<logger, lggr, updVars>>

DoLoggerInfoL ==
    /\ alive
    /\ lggr # Nil
    /\ \E msgs \in MsgLists, fields \in FieldLists :
         Returns("InfoL", msgs, NoEnv, InfoL(lggr, msgs, fields))
    /\ UNCHANGED <<logger, lggr, updVars>>

DoLoggerErrorL ==
    /\ alive
    /\ lggr # Nil
    /\ \E msgs \in MsgLists, fields \in FieldLists :
         Returns("ErrorL", msgs, NoEnv, ErrorL(lggr, msgs, fields))
    /\ UNCHANGED <<logger, lggr, updVars>>

DoLoggerFatalL ==
    /\ alive
    /\ lggr # Nil
    /\ \E msgs \in MsgLists, fields \in FieldLists :
         Returns("FatalL", msgs, NoEnv, FatalL(lggr, msgs, fields))
    /\ UNCHANGED <<logger, lggr, updVars>>

NextBackend ==
    \/ DoNewLogrusLogger
    \/ DoNewNullLogger
    \/ DoLoggerConfigure
    \/ DoLoggerDebug
    \/ DoLoggerInfo
    \/ DoLoggerError
    \/ DoLoggerFatal
    \/ DoLoggerDebugL
    \/ DoLoggerInfoL
    \/ DoLoggerErrorL
    \/ DoLoggerFatalL

SpecBackend ==
    Init /\ [][NextBackend]_vars

(***************************************************************************)
(* Config.Update on its own: every base and every override.                *)
(***************************************************************************)
InitUpdate ==
    /\ logger = Nil
    /\ lggr = Nil
    /\ alive = TRUE
    /\ last = NoCall
    /\ emitted = <<>>
    /\ updBase \in AllConfigs
    /\ updOver \in AllConfigs \cup {NilCfg}
    /\ updRet = NilCfg
    /\ updDone = FALSE

DoUpdate ==
    /\ ~updDone
    /\ LET r == Update(updBase, updOver)
       IN  /\ updBase' = r.c
           /\ updOver' = r.cfg
           /\ updRet' = r.ret
    /\ updDone' = TRUE
    /\ UNCHANGED <<logger, lggr, alive, last, emitted>>

SpecUpdate ==
    InitUpdate /\ [][DoUpdate]_vars

(***************************************************************************)
(* Claims.                                                                 *)
(***************************************************************************)
LeveledOps ==
    { "Debug", "Info", "Error", "Fatal" }

MultiLineOps ==
    { "DebugL", "InfoL", "ErrorL", "FatalL" }

\* the names SetClient's switch selects a backend by
Selectable ==
    { "logrus", "none" }

\* C1: SetClient under the active backend's own name returns no error,
\* leaves the logger and all its settings as they were and opens no file;
\* and SetClient(n, cfg) given twice in succession for a selectable name n
\* leaves the logger instance of the first call active after the second.
C1_SetClientIdempotent ==
    [][ /\ ( /\ last'.op = "SetClient"
             /\ logger # Nil
             /\ last'.name = Name(logger) )
           => ( /\ last'.outcome = "ok"
                /\ logger' = logger
                /\ last'.opened = NoFile )
        /\ ( /\ last.op = "SetClient"
             /\ last.outcome = "ok"
             /\ last.name \in Selectable
             /\ last'.op = "SetClient"
             /\ last'.name = last.name
             /\ last'.cfg = last.cfg )
           => Ref(logger') = Ref(logger) ]_vars

\* C2: the package-level logger is set in every reachable state, so Client()
\* never returns an unset reference and the package-level leveled calls
\* never fail.
C2_LoggerAlwaysSet ==
    /\ logger # Nil
    /\ (last.op = "Client" => last.obj # Nil)
    /\ (last.op \in LeveledOps => last.outcome # "panic")

\* C3: Config.Update returns, field by field, the override's value where it
\* is non-empty and the base's value where it is empty; an all-empty or nil
\* override gives the base, a fully populated one gives the override, and
\* the override is left as it was.
C3_UpdateMerges ==
    [][ (~updDone /\ updDone') =>
          /\ updOver' = updOver
          /\ IF updOver = NilCfg THEN updRet' = updBase
             ELSE /\ updRet'.LogLevel =
                       IF updOver.LogLevel # <<>> THEN updOver.LogLevel
                       ELSE updBase.LogLevel
                  /\ updRet'.OutFormat =
                       IF updOver.OutFormat # "" THEN updOver.OutFormat
                       ELSE updBase.OutFormat
                  /\ updRet'.Outfile =
                       IF updOver.Outfile # <<>> THEN updOver.Outfile
                       ELSE updBase.Outfile
                  /\ (updOver = MkConfig(<<>>, "", <<>>) => updRet' = updBase)
                  /\ ( ( /\ updOver.LogLevel # <<>>
                         /\ updOver.OutFormat # ""
                         /\ updOver.Outfile # <<>> ) => updRet' = updOver ) ]_vars

\* C3 witness: a partial override has been merged, one field taken from the
\* override and one kept from the base.
C3_Witness ==
    /\ updDone
    /\ updOver # NilCfg
    /\ updOver.LogLevel = <<"verbose">>
    /\ updOver.OutFormat = ""
    /\ updRet.LogLevel = <<"verbose">>
    /\ updRet.OutFormat = "json"

\* the Config a call hands to LogrusLogger.Configure
Effective(c) ==
    IF c.op = "NewLogrusLogger"
    THEN Update(defaultLogrusConfig,
                IF c.cfg = NilCfg THEN defaultLogrusConfig ELSE c.cfg).ret
    ELSE c.cfg

OnLogrus(c) ==
    /\ c.op \in { "NewLogrusLogger", "Logger.Configure" }
    /\ c.name = "logrus"
    /\ Effective(c) # NilCfg

ValidLevel(s) ==
    TrimSpace(s) \in { <<"debug">>, <<"info">>, <<"error">> }

ValidFormat(s) ==
    s \in { "json", "text" }

\* C4: an invalid level or format reaches the caller of the structured
\* backend's Configure (and of NewLogrusLogger) as a returned error, and the
\* error for an empty or whitespace-only level differs from the error for an
\* unrecognized one.
C4_InvalidSettingIsReturnedError ==
    ( /\ OnLogrus(last)
      /\ ~(ValidLevel(Effective(last).LogLevel)
           /\ ValidFormat(Effective(last).OutFormat)) )
    => /\ last.outcome = "error"
       /\ ~ValidLevel(Effective(last).LogLevel) =>
            ( last.msg = "Please provide a log level"
              <=> TrimSpace(Effective(last).LogLevel) = <<>> )

\* C5: with a valid level and format and a file named, Configure fails when
\* the parent directory of the trimmed path is missing or cannot be checked;
\* when it succeeds Path() is the trimmed path and the file the logger
\* writes to is the file Path() names.
C5_FileRouting ==
    ( /\ OnLogrus(last)
      /\ ValidLevel(Effective(last).LogLevel)
      /\ ValidFormat(Effective(last).OutFormat)
      /\ TrimSpace(Effective(last).Outfile) # <<>> )
    => LET p == TrimSpace(Effective(last).Outfile)
       IN  /\ (Dir(p) \notin ExistingDirs \/ last.env.statErr)
                => last.outcome = "error"
           /\ last.outcome = "ok" =>
                /\ Path(lggr) = p
                /\ lggr.out = Path(lggr)

\* a logger apart from where it lives
Shape(l) ==
    [l EXCEPT !.addr = 0]

\* C6: a SetClient call under a name other than the active backend's ends
\* as NewClient ends for the same name, Config and surroundings (the same
\* backend with the same settings, or the same failure), and on success
\* stores that logger.
C6_SetClientAgreesWithNewClient ==
    [][ ( /\ last'.op = "SetClient"
          /\ logger # Nil
          /\ Name(logger) # last'.name )
        => LET r == NewClient(last'.name, last'.cfg, last'.env, last'.obj.addr)
           IN  /\ last'.outcome = r.outcome
               /\ last'.outcome = "ok" =>
                    /\ Shape(last'.obj) = Shape(r.obj)
                    /\ logger' = last'.obj ]_vars

\* C7: only a SetClient call that succeeds changes which logger the
\* package-level reference points at.
C7_OnlySetClientRebinds ==
    [][ Ref(logger') # Ref(logger)
          => (last'.op = "SetClient" /\ last'.outcome = "ok" /\ ~last'.noop) ]_vars

\* C7 witness: a SetClient call has failed with an error while a logger was
\* active.
C7_Witness ==
    /\ last.op = "SetClient"
    /\ last.outcome = "error"
    /\ logger # Nil

\* C8: every entry the structured backend hands to logrus, from a leveled
\* call or a multi-line variant, carries pkg and src, and they hold what the
\* call-site locator returned whatever fields the caller supplied.
C8_EntriesCarryCallSite ==
    \A i \in DOMAIN emitted :
        /\ {"pkg", "src"} \subseteq DOMAIN emitted[i].fields
        /\ emitted[i].fields["pkg"] = source(last.env)[1].Val
        /\ emitted[i].fields["src"] = source(last.env)[2].Val

\* the level a level string names
LevelOf(s) ==
    toLogLevel(s).val

\* C9: NewLogrusLogger with a nil or all-empty Config succeeds with level
\* info, format text, standard output and an empty Path(); every successful
\* construction takes each non-empty field from the Config and the default
\* for each empty one, whatever was constructed before.
C9_ConstructionDefaults ==
    (last.op = "NewLogrusLogger") =>
      /\ last.cfg \in { NilCfg, MkConfig(<<>>, "", <<>>) } =>
           /\ last.outcome = "ok"
           /\ last.obj.level = InfoLevel
           /\ last.obj.format = "text"
           /\ last.obj.out = Stdout
           /\ Path(last.obj) = <<>>
      /\ (last.outcome = "ok" /\ last.cfg # NilCfg) =>
           /\ last.obj.level = IF last.cfg.LogLevel # <<>>
                               THEN LevelOf(last.cfg.LogLevel) ELSE InfoLevel
           /\ last.obj.format = IF last.cfg.OutFormat # ""
                                THEN last.cfg.OutFormat ELSE "text"
           /\ Path(last.obj) = TrimSpace(last.cfg.Outfile)
           /\ last.cfg.Outfile = <<>> => last.obj.out = Stdout

\* C9 witness: a construction from a partly filled Config, after an earlier
\* logger was constructed, took the level supplied and the default format.
C9_Witness ==
    /\ last.op = "NewLogrusLogger"
    /\ last.outcome = "ok"
    /\ last.cfg = MkConfig(<<"debug", " ">>, "", <<>>)
    /\ last.obj.level = DebugLevel
    /\ last.obj.format = "text"
    /\ last.obj.addr > 1

NullCalls ==
    { "NewNullLogger", "Logger.Configure" } \cup
    { c : c \in LeveledOps \cup MultiLineOps }

\* C10: whatever is called on the null backend, nothing is handed on or
\* written, no file is opened, no error is returned, the process lives on,
\* Name() is "null" and Path() is empty.
C10_NullBackendInert ==
    (lggr.kind = "null" /\ last.op \in NullCalls) =>
      /\ emitted = <<>>
      /\ last.opened = NoFile
      /\ last.outcome = "ok"
      /\ alive
      /\ Name(lggr) = "null"
      /\ Path(lggr) = <<>>

\* C10 witness: FatalL has been called on the null backend with two
\* messages.
C10_Witness ==
    /\ lggr.kind = "null"
    /\ last.op = "FatalL"
    /\ Len(last.msgs) = 2

\* the severity a multi-line variant logs at
SeverityOf(op) ==
    CASE op = "DebugL" -> DebugLevel
      [] op = "InfoL" -> InfoLevel
      [] op = "ErrorL" -> ErrorLevel
      [] op = "FatalL" -> FatalLevel

\* C11: a multi-line variant of the structured backend hands logrus one
\* entry per message, in the order given, each at the variant's severity and
\* all with one field mapping; FatalL too emits every one of its messages.
C11_MultiLineEmitsEveryMessage ==
    (lggr.kind = "logrus" /\ last.op \in MultiLineOps) =>
      /\ Len(emitted) = Len(last.msgs)
      /\ \A i \in DOMAIN emitted :
           /\ i <= Len(last.msgs) => emitted[i].msg = last.msgs[i]
           /\ emitted[i].level = SeverityOf(last.op)
           /\ emitted[i].fields = emitted[1].fields

\* whether a logger's destination is a file
ToFile(l) ==
    l.out \notin { Stdout, Stderr }

\* C12: Path() of a structured logger is non-empty exactly when the logger
\* writes to a file, and then that file is the one the latest successful
\* Configure opened; a Configure that fails leaves no Path() naming a file
\* the logger does not write to.
C12_PathMatchesDestination ==
    lggr.kind = "logrus" =>
      /\ Path(lggr) # <<>> <=> ToFile(lggr)
      /\ ( /\ last.op \in { "NewLogrusLogger", "Logger.Configure" }
           /\ last.outcome = "ok"
           /\ last.opened # NoFile ) => lggr.out = last.opened

====
